---- MODULE Spec2Model ----
(***************************************************************************)
(* hackernews/client.py: the recursive, depth-bounded concurrent fetch of  *)
(* HackerNews items (async_fetch_url, async_fetch_urls, fetch_urls,        *)
(* get_user_items), run by one asyncio event loop.                         *)
(*                                                                         *)
(* One action is the code that runs between two suspension points of the   *)
(* event loop: a coroutine runs without interruption until it awaits a     *)
(* future that is not done.                                                *)
(***************************************************************************)
EXTENDS Integers, Sequences, FiniteSets, TLC

(* ----------------------------- bounds --------------------------------- *)
NumItems == 2        \* item ids 1..NumItems exist in the remote store
NumUsers == 1        \* user names 1..NumUsers
MaxKids == 2         \* longest 'kids' / 'submitted' list of one body
MaxEdges == 2        \* child references in the whole remote store
MaxUrls == 2         \* longest url list handed to fetch_urls
MaxBudget == 2       \* largest 'recursive' argument
MaxCalls == 2        \* invocations of fetch_urls / get_user_items per run

(* --------------------------- program constants ------------------------ *)
FETCH_TIMEOUT == 1000

ItemIds == 1..NumItems
UserNames == 1..NumUsers
Budgets == (0 - 1)..MaxBudget

\* ITEM_URL.format(kid) and USER_URL.format(username): two templates, so a
\* user address never equals an item address.
ITEM_URL(kid) == [tmpl |-> "item", id |-> kid]
USER_URL(username) == [tmpl |-> "user", id |-> username]

AllUrls == {ITEM_URL(k) : k \in ItemIds} \cup {USER_URL(u) : u \in UserNames}

RECURSIVE SeqsUpTo(_, _)
SeqsUpTo(S, n) ==
    IF n = 0 THEN {<<>>}
    ELSE LET shorter == SeqsUpTo(S, n - 1)
         IN  shorter \cup {Append(s, x) : s \in {t \in shorter : Len(t) = n - 1}, x \in S}

(* ------------------------- the remote item store ---------------------- *)
\* What response.json() yields: None (the body "null") or a JSON object,
\* which may carry a 'kids' and a 'submitted' array (an empty sequence
\* stands for a field that is missing or empty: item.get(...) is falsy for
\* both).
NullBody == [kind |-> "null", kids |-> <<>>, submitted |-> <<>>]
KidLists == SeqsUpTo(ItemIds, MaxKids)
DictBodies == [kind : {"dict"}, kids : KidLists, submitted : KidLists]
Bodies == {NullBody} \cup DictBodies
Unknown == [kind |-> "unknown", kids |-> <<>>, submitted |-> <<>>]

Edges(body) == Len(body.kids) + Len(body.submitted)

RECURSIVE SumEdges(_, _)
SumEdges(st, urls) ==
    IF urls = {} THEN 0
    ELSE LET u == CHOOSE x \in urls : TRUE
         IN  Edges(st[u]) + SumEdges(st, urls \ {u})

\* The exceptions a fetch can end in: async_timeout's deadline, the
\* transport (session.get) and the JSON parser (response.json).
FetchErrors == {"TimeoutError", "ClientError", "ValueError"}

VARIABLES
    store,        \* the remote store, revealed url by url as it is fetched
    loopClosed,   \* the process event loop has been closed (loop.close())
    sessionOpen,  \* the aiohttp.ClientSession of the running invocation
    calls,        \* invocations made so far
    pc,           \* "idle" | "running" | "returned" | "raised"
    entry,        \* the function the caller invoked
    args,         \* its arguments, and those handed to fetch_urls
    stack,        \* the frames of async_fetch_urls, outermost first
    result,       \* what the invocation returned
    error,        \* the exception the invocation ended in
    pending,      \* tasks left unfinished in the event loop
    nfetch,       \* requests issued by the invocation
    fetched,      \* requests issued by the invocation, per url
    firstFetch,   \* url of the first request issued by the invocation
    maxDepth,     \* deepest recursion level a request was issued at
    reccalls,     \* recursive calls of async_fetch_urls in the invocation
    emptycalls,   \* those made with an empty url list
    firstError,   \* the first exception a fetch of the invocation ended in
    levelCreated, \* tasks created by the invocation, per recursion depth
    levelDone     \* tasks of the invocation that returned, per recursion depth

vars == <<store, loopClosed, sessionOpen, calls, pc, entry, args, stack,
          result, error, pending, nfetch, fetched, firstFetch, maxDepth,
          reccalls, emptycalls, firstError, levelCreated, levelDone>>

Levels == 0..(MaxBudget + 1)
NoTasks == [d \in Levels |-> 0]

NoUrl == [tmpl |-> "none", id |-> 0]
NoItem == [url |-> NoUrl, body |-> NullBody]
NoArgs == [username |-> 0, budget |-> 0, urls |-> <<>>, recursive |-> 0]

(* ------------------- async_fetch_urls, piece by piece ------------------ *)
\* An element of 'items' is the body a fetch returned; 'url' labels it with
\* the address it was fetched from.
Item(url, body) == [url |-> url, body |-> body]

\* tasks = [asyncio.ensure_future(async_fetch_url(url, session)) for url in urls]
NewTasks(urls) ==
    [k \in 1..Len(urls) |-> [url |-> urls[k], st |-> "scheduled", body |-> NullBody]]

\* A task that ended either way counts as a result (exceptions swallowed).
ResolvedOrFailed(t) == t.st \in {"done", "failed"}

\* gather does not wait for a request that is still in flight.
ResolvedEarly(t) == t.st \in {"done", "inflight"}

\* A task whose coroutine returned: its result is ready for gather.
Resolved(t) == t.st = "done"

\* A task whose coroutine raised: gather (return_exceptions=False) hands
\* the exception to the awaiting frame.
Raised(t) == t.st = "failed"

\* The exception is delivered only once every sibling has ended too.
GatherRaisesAfterAll(tasks) ==
    /\ \E k \in 1..Len(tasks) : tasks[k].st = "failed"
    /\ \A k \in 1..Len(tasks) : tasks[k].st \in {"done", "failed"}

\* await asyncio.gather(*tasks) raises as soon as one task has raised,
\* whatever state the other tasks are in.
GatherRaises(tasks) == \E k \in 1..Len(tasks) : Raised(tasks[k])

\* The results in reverse order of the tasks (as if collected out of order).
GatherResultReversed(tasks) ==
    [k \in 1..Len(tasks) |->
        [url |-> tasks[Len(tasks) + 1 - k].url, body |-> tasks[Len(tasks) + 1 - k].body]]

\* items = await asyncio.gather(*tasks): the results in the order of the
\* tasks, whatever order they finished in.
GatherResult(tasks) == [k \in 1..Len(tasks) |-> Item(tasks[k].url, tasks[k].body)]

\* if recursive: (any budget but 0 recurses).
ShouldRecurseNonZero(recursive) == recursive # 0

\* Off by one: recursive >= 0.
ShouldRecurseGE(recursive) == recursive >= 0

\* if recursive > 0:
ShouldRecurse(recursive) == recursive > 0

\* new_items = items (aliasing the batch).
NewItemsAlias(items) == items

\* new_items = []
NewItems(items) == <<>>

\* The test for None left out.
TruthyAlways(item) == TRUE

\* if item:
Truthy(item) == item.body.kind # "null"

\* kids = item.get('kids', []) + item.get('submitted', []): both lists.
KidsMerged(item) == item.body.kids \o item.body.submitted

\* kids = item.get('kids') or item.get('submitted') or []
Kids(item) ==
    IF item.body.kids # <<>> THEN item.body.kids
    ELSE IF item.body.submitted # <<>> THEN item.body.submitted
    ELSE <<>>

\* The child addresses with duplicates dropped (a set of urls).
RECURSIVE Dedup(_)
Dedup(s) ==
    IF s = <<>> THEN <<>>
    ELSE LET front == Dedup(SubSeq(s, 1, Len(s) - 1))
             last == s[Len(s)]
         IN  IF \E k \in 1..Len(front) : front[k] = last THEN front ELSE Append(front, last)
ChildUrlsDedup(kids) == Dedup([k \in 1..Len(kids) |-> [tmpl |-> "item", id |-> kids[k]]])

\* urls = [ITEM_URL.format(kid) for kid in kids]
ChildUrls(kids) == [k \in 1..Len(kids) |-> ITEM_URL(kids[k])]

\* The guard on an empty url list left out.
HasUrlsAlways(urls) == TRUE

\* if urls:
HasUrls(urls) == urls # <<>>

\* The budget handed on unchanged.
NextBudgetSame(recursive) == recursive

\* recursive=recursive-1
NextBudget(recursive) == recursive - 1

\* items = new_items + items.
MergeSwapped(items, new_items) == new_items \o items

\* items += new_items
Merge(items, new_items) == items \o new_items

\* new_items = await ... (the earlier parents' results overwritten).
AccumulateOverwrite(new_items, ret) == ret

\* new_items += await async_fetch_urls(urls, session, recursive=recursive-1)
Accumulate(new_items, ret) == new_items \o ret

Frame(urls, recursive, parent) ==
    [urls |-> urls, recursive |-> recursive, tasks |-> NewTasks(urls),
     items |-> <<>>, i |-> 0, new_items |-> <<>>, parent |-> parent]

\* The frame when gather has delivered: items is set and the loop of line 40
\* is at its first element.
Gathered(f) ==
    [f EXCEPT !.items = GatherResult(f.tasks),
              !.i = 1,
              !.new_items = NewItems(GatherResult(f.tasks))]

Suspended(stk, g) ==
    [status |-> "suspended", stack |-> stk, result |-> <<>>, error |-> "none",
     reccalls |-> g.reccalls, emptycalls |-> g.emptycalls]
Returns(ret, g) ==
    [status |-> "returned", stack |-> <<>>, result |-> ret, error |-> "none",
     reccalls |-> g.reccalls, emptycalls |-> g.emptycalls]
Raises(err, g) ==
    [status |-> "raised", stack |-> <<>>, result |-> <<>>, error |-> err,
     reccalls |-> g.reccalls, emptycalls |-> g.emptycalls]

\* The coroutine async_fetch_urls from the line it is at to its next
\* suspension: AfterGather runs the frame on top of stk from line 38 on,
\* its 'items' being gathered; Call enters a new frame (lines 34-37). The
\* await of a recursive call with tasks suspends the whole stack; gather()
\* of no task is already done and does not suspend. g counts the recursive
\* calls made.
RECURSIVE AfterGather(_, _), Call(_, _, _, _, _)
AfterGather(stk, g) ==
    LET n == Len(stk)
        f == stk[n]
    IN  IF ShouldRecurse(f.recursive) /\ f.i <= Len(f.items)
        THEN \* for i, item in enumerate(items):
             LET item == f.items[f.i]
                 next == [stk EXCEPT ![n].i = f.i + 1]
             IN  IF Truthy(item)
                 THEN IF item.body.kind # "dict"
                      THEN Raises("AttributeError", g)     \* None has no .get
                      ELSE LET urls == ChildUrls(Kids(item))
                           IN  IF HasUrls(urls)
                               THEN Call(stk, urls, NextBudget(f.recursive), item,
                                         [g EXCEPT !.reccalls = @ + 1,
                                                   !.emptycalls = @ + (IF urls = <<>> THEN 1 ELSE 0)])
                               ELSE AfterGather(next, g)
                 ELSE AfterGather(next, g)
        ELSE \* return items
             LET ret == IF ShouldRecurse(f.recursive)
                        THEN Merge(f.items, f.new_items) ELSE f.items
             IN  IF n = 1 THEN Returns(ret, g)
                 ELSE AfterGather([SubSeq(stk, 1, n - 1) EXCEPT
                                      ![n - 1].new_items = Accumulate(@, ret),
                                      ![n - 1].i = @ + 1], g)
Call(stk, urls, recursive, parent, g) ==
    LET f == Frame(urls, recursive, parent)
    IN  IF f.tasks # <<>>
        THEN Suspended(Append(stk, f), g)
        ELSE AfterGather(Append(stk, Gathered(f)), g)

NoCalls == [reccalls |-> 0, emptycalls |-> 0]

(* ------------------------------ actions -------------------------------- *)
Init ==
    /\ store = [u \in AllUrls |-> Unknown]
    /\ loopClosed = FALSE
    /\ sessionOpen = FALSE
    /\ calls = 0
    /\ pc = "idle"
    /\ entry = "none"
    /\ args = NoArgs
    /\ stack = <<>>
    /\ result = <<>>
    /\ error = "none"
    /\ pending = 0
    /\ nfetch = 0
    /\ fetched = [u \in AllUrls |-> 0]
    /\ firstFetch = NoUrl
    /\ maxDepth = 0
    /\ reccalls = 0
    /\ emptycalls = 0
    /\ firstError = "none"
    /\ levelCreated = NoTasks
    /\ levelDone = NoTasks

\* Tasks of a frame that have neither returned nor raised.
Unfinished(tasks) == Cardinality({k \in 1..Len(tasks) : tasks[k].st \in {"scheduled", "inflight"}})

\* The session is released on the success path only (no with block).
SessionOpenAfterLeak(status) == status # "returned"

\* with aiohttp.ClientSession(loop=loop) as session: the session is open
\* while run_until_complete runs and closed when the block is left.
SessionOpenAfter(status) == status = "suspended"

\* loop.close() in a finally: the loop is closed on every path.
LoopClosedAfterAlways(closed, status) == closed \/ status \in {"returned", "raised"}

\* loop.close() follows the with block: it is reached only when no
\* exception left run_until_complete.
LoopClosedAfter(closed, status) == closed \/ status = "returned"

\* The tasks that exist per depth once 'out' is reached: a suspended stack
\* has just created the tasks of its top frame.
CreatedAfter(created, out) ==
    IF out.status = "suspended"
    THEN [created EXCEPT ![Len(out.stack) - 1] = @ + Len(out.stack[Len(out.stack)].tasks)]
    ELSE created

\* The event loop has run the main coroutine up to 'out'. When it returned
\* or raised, run_until_complete ends: the with block closes the session on
\* both paths, and loop.close() (line 72) is reached only when no exception
\* left the with block.
Settle(out, left) ==
    /\ stack' = out.stack
    /\ reccalls' = out.reccalls
    /\ emptycalls' = out.emptycalls
    /\ result' = out.result
    /\ error' = out.error
    /\ pc' = IF out.status = "suspended" THEN "running" ELSE out.status
    /\ sessionOpen' = SessionOpenAfter(out.status)
    /\ loopClosed' = LoopClosedAfter(loopClosed, out.status)
    /\ pending' = pending + left

\* fetch_urls(urls, recursive), lines 65-73, up to the first suspension of
\* the event loop. On a closed loop run_until_complete raises before the
\* coroutine runs at all.
Invoke(who, username, budget, urls, recursive) ==
    /\ pc \in {"idle", "returned", "raised"}
    /\ calls < MaxCalls
    /\ calls' = calls + 1
    /\ entry' = who
    /\ args' = [username |-> username, budget |-> budget,
                urls |-> urls, recursive |-> recursive]
    /\ nfetch' = 0
    /\ fetched' = [u \in AllUrls |-> 0]
    /\ firstFetch' = NoUrl
    /\ maxDepth' = 0
    /\ firstError' = "none"
    /\ levelDone' = NoTasks
    /\ IF loopClosed
       THEN /\ Settle(Raises("RuntimeError", NoCalls), 0)
            /\ levelCreated' = NoTasks
       ELSE \E out \in {Call(<<>>, urls, recursive, NoItem, NoCalls)} :
                /\ Settle(out, 0)
                /\ levelCreated' = CreatedAfter(NoTasks, out)
    /\ UNCHANGED store

FetchUrls ==
    \E urls \in SeqsUpTo({ITEM_URL(k) : k \in ItemIds}, MaxUrls), recursive \in Budgets :
        Invoke("fetch_urls", 0, 0, urls, recursive)

\* recursive not handed on: fetch_urls's default.
UserItemsRecursiveDefault(recursive) == 0

\* url = USER_URL.format(username); return fetch_urls([url], recursive=recursive)
UserItemsUrls(username) == <<USER_URL(username)>>
UserItemsRecursive(recursive) == recursive

GetUserItems ==
    \E username \in UserNames, recursive \in Budgets :
        Invoke("get_user_items", username, recursive,
               UserItemsUrls(username), UserItemsRecursive(recursive))

Top == stack[Len(stack)]

\* async_fetch_url reaches session.get(url): the request goes out.
StartFetch(k) ==
    /\ pc = "running"
    /\ k \in 1..Len(Top.tasks)
    /\ Top.tasks[k].st = "scheduled"
    /\ stack' = [stack EXCEPT ![Len(stack)].tasks[k].st = "inflight"]
    /\ nfetch' = nfetch + 1
    /\ fetched' = [fetched EXCEPT ![Top.tasks[k].url] = @ + 1]
    /\ firstFetch' = IF nfetch = 0 THEN Top.tasks[k].url ELSE firstFetch
    /\ maxDepth' = IF Len(stack) - 1 > maxDepth THEN Len(stack) - 1 ELSE maxDepth
    /\ UNCHANGED <<store, loopClosed, sessionOpen, calls, pc, entry, args, result,
                   error, pending, reccalls, emptycalls, firstError,
                   levelCreated, levelDone>>

\* return await response.json(): the task ends with the body the remote
\* store holds for the url.
CompleteFetch(k) ==
    /\ pc = "running"
    /\ k \in 1..Len(Top.tasks)
    /\ Top.tasks[k].st = "inflight"
    /\ LET url == Top.tasks[k].url
       IN  \E body \in Bodies :
             /\ IF store[url] = Unknown
                THEN SumEdges(store, AllUrls) + Edges(body) <= MaxEdges
                ELSE body = store[url]
             /\ store' = [store EXCEPT ![url] = body]
             /\ stack' = [stack EXCEPT ![Len(stack)].tasks[k].st = "done",
                                       ![Len(stack)].tasks[k].body = body]
    /\ levelDone' = [levelDone EXCEPT ![Len(stack) - 1] = @ + 1]
    /\ UNCHANGED <<loopClosed, sessionOpen, calls, pc, entry, args, result, error,
                   pending, nfetch, fetched, firstFetch, maxDepth, reccalls,
                   emptycalls, firstError, levelCreated>>

\* The request times out, the transport fails or the body does not parse:
\* the task ends with the exception.
FailFetch(k) ==
    /\ pc = "running"
    /\ k \in 1..Len(Top.tasks)
    /\ Top.tasks[k].st = "inflight"
    /\ \E err \in FetchErrors :
         /\ stack' = [stack EXCEPT ![Len(stack)].tasks[k].st = "failed"]
         /\ firstError' = IF firstError = "none" THEN err ELSE firstError
    /\ UNCHANGED <<store, loopClosed, sessionOpen, calls, pc, entry, args, result,
                   error, pending, nfetch, fetched, firstFetch, maxDepth, reccalls,
                   emptycalls, levelCreated, levelDone>>

\* gather delivers the results: every task of the awaited frame returned.
\* The stack runs on from line 38 to its next suspension or to its end.
GatherDone ==
    /\ pc = "running"
    /\ \A k \in 1..Len(Top.tasks) : Resolved(Top.tasks[k])
    /\ \E out \in {AfterGather([stack EXCEPT ![Len(stack)] = Gathered(Top)],
                                [reccalls |-> reccalls, emptycalls |-> emptycalls])} :
          /\ Settle(out, 0)
          /\ levelCreated' = CreatedAfter(levelCreated, out)
    /\ UNCHANGED <<store, calls, entry, args, nfetch, fetched, firstFetch,
                   maxDepth, firstError, levelDone>>

\* gather delivers the first exception of a task: no frame catches it, so
\* it leaves every frame and run_until_complete. The tasks that have not
\* finished stay in the loop.
GatherRaise ==
    /\ pc = "running"
    /\ GatherRaises(Top.tasks)
    /\ Settle(Raises(firstError, [reccalls |-> reccalls, emptycalls |-> emptycalls]),
              Unfinished(Top.tasks))
    /\ UNCHANGED <<store, calls, entry, args, nfetch, fetched, firstFetch,
                   maxDepth, firstError, levelCreated, levelDone>>

Next ==
    \/ FetchUrls
    \/ GetUserItems
    \/ \E k \in 1..MaxUrls + MaxKids : StartFetch(k)
    \/ \E k \in 1..MaxUrls + MaxKids : CompleteFetch(k)
    \/ \E k \in 1..MaxUrls + MaxKids : FailFetch(k)
    \/ GatherDone
    \/ GatherRaise

Spec == Init /\ [][Next]_vars

(* ----------------- what the specification expects -------------------- *)
\* The expected outcome of an expansion, read off the remote store alone.
Present(u) == store[u].kind = "dict"
Children(u) ==
    IF ~Present(u) THEN <<>>
    ELSE IF Len(store[u].kids) > 0 THEN store[u].kids
    ELSE store[u].submitted
ChildAddrs(u) == [k \in 1..Len(Children(u)) |-> [tmpl |-> "item", id |-> Children(u)[k]]]
FetchResult(u) == [url |-> u, body |-> store[u]]
Batch(urls) == [k \in 1..Len(urls) |-> FetchResult(urls[k])]

\* The child addresses of urls[1..k], parent by parent.
RECURSIVE NextLevelUpTo(_, _)
NextLevelUpTo(urls, k) ==
    IF k = 0 THEN <<>> ELSE NextLevelUpTo(urls, k - 1) \o ChildAddrs(urls[k])
NextLevel(urls) == NextLevelUpTo(urls, Len(urls))

\* Level order: the batch, then ONE expansion of all its children together.
RECURSIVE LevelOrder(_, _)
LevelOrder(urls, budget) ==
    Batch(urls) \o (IF budget > 0 /\ NextLevel(urls) # <<>>
                    THEN LevelOrder(NextLevel(urls), budget - 1) ELSE <<>>)

Count(seq, x) == Cardinality({k \in 1..Len(seq) : seq[k] = x})
UrlsOf(items) == [k \in 1..Len(items) |-> items[k].url]
SameBag(a, b) ==
    /\ Len(a) = Len(b)
    /\ \A k \in 1..Len(a) : Count(a, a[k]) = Count(b, a[k])

Started == pc # "idle"
Succeeded == pc = "returned"

(* ------------------------------ claims --------------------------------- *)
\* C1: with recursive = 0 a successful call returns exactly len(urls) results,
\* the i-th being the fetch result of urls[i]; no recursive call is made and
\* no request other than one per input url is issued.
C1_BudgetZeroBatch ==
    (Started /\ args.recursive = 0) =>
        /\ reccalls = 0
        /\ \A u \in AllUrls : fetched[u] <= Count(args.urls, u)
        /\ Succeeded =>
             /\ Len(result) = Len(args.urls)
             /\ \A k \in 1..Len(args.urls) : result[k] = FetchResult(args.urls[k])
             /\ nfetch = Len(args.urls)
             /\ \A u \in AllUrls : fetched[u] = Count(args.urls, u)

\* Two different inputs, the first of which has children that are not fetched.
C1_Witness ==
    /\ Succeeded /\ args.recursive = 0
    /\ Len(args.urls) = 2 /\ args.urls[1] # args.urls[2]
    /\ Children(args.urls[1]) # <<>>
    /\ Len(result) = 2

\* C2 (as stated): for budget >= 1 the result is the batch followed by ONE
\* recursive expansion of the concatenated children, i.e. level order.
C2_LevelOrderResult ==
    (Succeeded /\ args.recursive >= 1) => result = LevelOrder(args.urls, args.recursive)

\* C3: with budget 1 the result is the batch in input order followed by the
\* fetch results of all children, by parent position, then by position in
\* the parent's child list.
C3_BudgetOneOrder ==
    (Succeeded /\ args.recursive = 1) =>
        result = Batch(args.urls) \o Batch(NextLevel(args.urls))

\* urls = [A, B], A has two different children, B is present without children.
C3_Witness ==
    /\ Succeeded /\ args.recursive = 1
    /\ Len(args.urls) = 2 /\ args.urls[1] # args.urls[2]
    /\ Len(Children(args.urls[1])) = 2
    /\ Children(args.urls[1])[1] # Children(args.urls[1])[2]
    /\ Present(args.urls[2]) /\ Children(args.urls[2]) = <<>>
    /\ Len(result) = 4

\* C4: with budget B >= 0 no request is issued deeper than B levels below the
\* input, and a successful result holds exactly the occurrences reachable
\* through present parents at depth 0..B.
C4_DepthBound ==
    (Started /\ args.recursive >= 0) =>
        /\ maxDepth <= args.recursive
        /\ Len(stack) <= args.recursive + 1
        /\ Succeeded => SameBag(result, LevelOrder(args.urls, args.recursive))

\* The chain profile -> 1 -> 2 cut by budget 1: item 1's child is not fetched.
C4_Witness ==
    /\ Succeeded /\ args.recursive = 1
    /\ args.urls = <<[tmpl |-> "user", id |-> 1]>>
    /\ Children(args.urls[1]) = <<1>>
    /\ Children([tmpl |-> "item", id |-> 1]) = <<2>>
    /\ UrlsOf(result) = <<[tmpl |-> "user", id |-> 1], [tmpl |-> "item", id |-> 1]>>

\* C5: once a fetch has failed the invocation never returns a result; it ends
\* in the (first) fetch error with no result, and every entry of a returned
\* result is what the store holds, never a stand-in for a failed fetch.
C5_FailurePropagates ==
    /\ firstError # "none" => pc \in {"running", "raised"}
    /\ (pc = "raised" /\ firstError # "none") => (error = firstError /\ result = <<>>)
    /\ pc = "raised" => result = <<>>
    /\ Succeeded => \A k \in 1..Len(result) : result[k] = FetchResult(result[k].url)

\* A fetch two levels down fails after the levels above were fetched.
C5_Witness ==
    /\ pc = "raised" /\ error = "TimeoutError"
    /\ maxDepth = 2 /\ nfetch >= 3

\* C6: an absent body is a result, not an error: the call does not fail on
\* it, the batch holds the absent entry at its position, and no frame is
\* ever entered for the children of an absent entry.
C6_AbsentIsResult ==
    /\ error # "AttributeError"
    /\ pc = "raised" => error \in FetchErrors \cup {"RuntimeError"}
    /\ \A d \in 2..Len(stack) : stack[d].parent.body.kind = "dict"
    /\ Succeeded =>
         /\ \A k \in 1..Len(args.urls) :
                ~Present(args.urls[k]) => result[k] = [url |-> args.urls[k], body |-> NullBody]
         /\ \A j \in (Len(args.urls) + 1)..Len(result) :
                \E i \in 1..(j - 1) :
                    /\ result[i].body.kind = "dict"
                    /\ \E c \in 1..Len(ChildAddrs(result[i].url)) :
                           ChildAddrs(result[i].url)[c] = result[j].url

\* [X, Y] with budget >= 1, X absent, Y with one child: three entries.
C6_Witness ==
    /\ Succeeded /\ args.recursive >= 1
    /\ Len(args.urls) = 2
    /\ store[args.urls[1]] = NullBody
    /\ Len(Children(args.urls[2])) = 1
    /\ Len(result) = 3
    /\ result[1].body = NullBody

\* C7: with budget > 0, when every item of the batch is absent or has no
\* children, exactly the batch is returned and nothing more is fetched.
C7_NoChildrenNoExtra ==
    (Started /\ args.recursive > 0
       /\ \A k \in 1..Len(args.urls) :
             store[args.urls[k]] # Unknown /\ Children(args.urls[k]) = <<>>) =>
        /\ nfetch <= Len(args.urls)
        /\ reccalls = 0
        /\ Succeeded => (result = Batch(args.urls) /\ Len(result) = Len(args.urls))

\* An absent and a childless present item, budget 2.
C7_Witness ==
    /\ Succeeded /\ args.recursive = 2
    /\ Len(args.urls) = 2
    /\ ~Present(args.urls[1])
    /\ Present(args.urls[2]) /\ Children(args.urls[2]) = <<>>
    /\ Len(result) = 2

\* C8: nothing is deduplicated: on success the output has one entry per
\* request issued, and every url is fetched as often as it occurs in the
\* levels the budget reaches.
C8_NoDeduplication ==
    /\ (Started /\ args.recursive >= 0) =>
          \A u \in AllUrls :
              store[u] # Unknown =>
                  fetched[u] <= Count(UrlsOf(LevelOrder(args.urls, args.recursive)), u)
    /\ Succeeded =>
         /\ Len(result) = nfetch
         /\ \A u \in AllUrls :
              /\ fetched[u] = Count(UrlsOf(result), u)
              /\ fetched[u] = Count(UrlsOf(LevelOrder(args.urls, args.recursive)), u)

\* Item 1 lists itself twice: input [1] with budget 2 fetches it 1 + 2 + 4 times.
C8_Witness ==
    /\ Succeeded /\ args.recursive = 2
    /\ args.urls = <<[tmpl |-> "item", id |-> 1]>>
    /\ Children(args.urls[1]) = <<1, 1>>
    /\ fetched[args.urls[1]] = 7
    /\ Len(result) = 7

\* C9: an expansion of no url returns the empty batch without any request,
\* whatever the budget, and no recursive call is made with an empty list.
\* (An invocation on a closed event loop never runs the expansion.)
C9_EmptyInput ==
    /\ emptycalls = 0
    /\ \A d \in 1..Len(stack) : stack[d].urls # <<>>
    /\ (Started /\ args.urls = <<>>) =>
          /\ nfetch = 0 /\ reccalls = 0
          /\ pc # "running"
          /\ error # "RuntimeError" => (Succeeded /\ result = <<>>)

\* fetch_urls([], 2) has returned [].
C9_Witness ==
    /\ Succeeded /\ args.urls = <<>> /\ args.recursive = 2
    /\ result = <<>> /\ nfetch = 0

\* C10: get_user_items(username, budget) is the expansion of the one-element
\* list [profile address] with the same budget: the first request is the
\* profile's, the first result is the profile's, every other result is a
\* descendant within the budget, and budget 0 is one request, one result.
C10_UserItems ==
    (Started /\ entry = "get_user_items") =>
        LET profile == [tmpl |-> "user", id |-> args.username]
        IN  /\ args.urls = <<profile>>
            /\ args.recursive = args.budget
            /\ nfetch > 0 => firstFetch = profile
            /\ args.budget = 0 => nfetch <= 1
            /\ Succeeded =>
                 /\ Len(result) >= 1
                 /\ result[1] = FetchResult(profile)
                 /\ \A j \in 2..Len(result) :
                        /\ args.budget >= 1
                        /\ Count(UrlsOf(LevelOrder(ChildAddrs(profile), args.budget - 1)),
                                 result[j].url) > 0
                 /\ SameBag(result, LevelOrder(<<profile>>, args.budget))
                 /\ args.budget = 0 => (nfetch = 1 /\ Len(result) = 1)

\* get_user_items(1, 2) over the chain profile -> 1 -> 2.
C10_Witness ==
    /\ Succeeded /\ entry = "get_user_items" /\ args.budget = 2
    /\ UrlsOf(result) = <<[tmpl |-> "user", id |-> 1], [tmpl |-> "item", id |-> 1],
                          [tmpl |-> "item", id |-> 2]>>

\* The addresses of the d-th level below urls (all parents together).
RECURSIVE LevelUrls(_, _)
LevelUrls(urls, d) == IF d = 0 THEN urls ELSE LevelUrls(NextLevel(urls), d - 1)

CurrentDepth == Len(stack) - 1

\* C11 (as stated): no request of depth d+1 goes out before every fetch of
\* depth d, across all parents, has returned.
C11_LevelsStrictlyOrdered ==
    (Started /\ args.recursive >= 0) =>
        \A d \in Levels :
            d < maxDepth => levelDone[d] >= Len(LevelUrls(args.urls, d))

\* C12: within one call every task of the input list exists before the call
\* waits, and no child is extracted and no recursive call is entered before
\* every one of them has returned.
C12_BarrierWithinCall ==
    /\ \A d \in 1..Len(stack) :
          /\ Len(stack[d].tasks) = Len(stack[d].urls)
          /\ \A k \in 1..Len(stack[d].urls) : stack[d].tasks[k].url = stack[d].urls[k]
    /\ \A d \in 1..(Len(stack) - 1) :
          /\ \A k \in 1..Len(stack[d].tasks) : stack[d].tasks[k].st = "done"
          /\ Len(stack[d].items) = Len(stack[d].urls)
          /\ stack[d].i >= 1
    /\ \A d \in 1..Len(stack) :
          (\E k \in 1..Len(stack[d].tasks) : stack[d].tasks[k].st # "done") =>
              (stack[d].i = 0 /\ stack[d].items = <<>> /\ d = Len(stack))
    /\ Succeeded => levelDone[0] = Len(args.urls)

\* A recursive call has been entered for the second of two inputs, both done.
C12_Witness ==
    /\ pc = "running" /\ Len(stack) = 2
    /\ Len(stack[1].tasks) = 2
    /\ stack[1].i = 2
    /\ stack[1].tasks[1].st = "done" /\ stack[1].tasks[2].st = "done"
    /\ stack[2].tasks[1].st = "scheduled"

\* C13 (as stated): the fetches of one depth, children of different parents
\* included, are all created before the system waits for any of them.
C13_WholeLevelConcurrent ==
    (pc = "running" /\ args.recursive >= 0) =>
        levelCreated[CurrentDepth] >= Len(LevelUrls(args.urls, CurrentDepth))

\* C14: the first failure of a fetch can be delivered at once, whatever
\* state its siblings are in; once it has left the invocation the siblings
\* are abandoned: nothing of the invocation runs any more (no request, no
\* result, no frame), until the caller invokes again.
C14_FailFastAbandon ==
    /\ []((pc = "running" /\ firstError # "none") => ENABLED GatherRaise)
    /\ [](pc = "raised" => (stack = <<>> /\ result = <<>> /\ ~sessionOpen))
    /\ [][pc = "raised" =>
            (calls' = calls + 1 /\ pending' = pending)]_vars
    /\ [][(pc = "running" /\ pc' = "raised") =>
            (/\ firstError # "none"
             /\ error' = firstError
             /\ nfetch' = nfetch
             /\ pending' = pending + Cardinality(
                   {k \in 1..Len(Top.tasks) : Top.tasks[k].st \in {"scheduled", "inflight"}}))]_vars

\* The first call failed while one sibling request was still in flight and
\* another had not gone out.
C14_Witness ==
    /\ pc = "raised" /\ calls = 1 /\ error \in FetchErrors
    /\ pending = 1 /\ nfetch = 2 /\ maxDepth = 0

IdsOf(urls) == [k \in 1..Len(urls) |-> urls[k].id]

\* C15: the children of a present item are exactly its 'kids' when that list
\* is not empty, else exactly its 'submitted', in the order of the chosen
\* list, never both; an item with neither has no children (no call is made
\* for it).
C15_ChildListResolution ==
    /\ \A d \in 2..Len(stack) :
          LET p == stack[d].parent.body
          IN  /\ \A k \in 1..Len(stack[d].urls) : stack[d].urls[k].tmpl = "item"
              /\ p.kids # <<>> => IdsOf(stack[d].urls) = p.kids
              /\ (p.kids = <<>> /\ p.submitted # <<>>) => IdsOf(stack[d].urls) = p.submitted
              /\ ~(p.kids = <<>> /\ p.submitted = <<>>)
              /\ stack[d].parent = stack[d - 1].items[stack[d - 1].i]
    /\ (Succeeded /\ args.recursive = 1) =>
          /\ Len(result) =
                Len(args.urls) + Len(NextLevel(args.urls))
          /\ \A k \in 1..Len(args.urls) :
                (store[args.urls[k]].kids # <<>> /\ store[args.urls[k]].submitted # <<>>) =>
                    Count(SubSeq(IdsOf(UrlsOf(result)), Len(args.urls) + 1, Len(result)),
                          store[args.urls[k]].submitted[1])
                    = Count(IdsOf(NextLevel(args.urls)), store[args.urls[k]].submitted[1])

\* An item with kids [1] and submitted [2]: only item 1 is fetched for it.
C15_Witness ==
    /\ Succeeded /\ args.recursive = 1 /\ Len(args.urls) = 1
    /\ store[args.urls[1]].kids = <<1>>
    /\ store[args.urls[1]].submitted = <<2>>
    /\ IdsOf(UrlsOf(result)) = <<args.urls[1].id, 1>>

\* C16: the session is acquired when an invocation starts and at no other
\* time, it is open as long as the invocation runs and released when it ends,
\* by a result or by an exception; every request goes out while it is open.
C16_SessionLifecycle ==
    /\ [](pc = "running" => sessionOpen)
    /\ [](pc \in {"idle", "returned", "raised"} => ~sessionOpen)
    /\ [][(~sessionOpen /\ sessionOpen') => calls' = calls + 1]_vars
    /\ [][calls' # calls => ~sessionOpen]_vars
    /\ [][nfetch' > nfetch => (sessionOpen /\ sessionOpen')]_vars

\* A failed invocation that had issued requests: the session is released.
C16_Witness ==
    /\ pc = "raised" /\ error \in FetchErrors /\ nfetch >= 2 /\ pending >= 1
    /\ ~sessionOpen

\* A step of the running event loop: a task or the awaiting coroutine runs.
LoopStep ==
    \/ \E k \in 1..MaxUrls + MaxKids : StartFetch(k) \/ CompleteFetch(k) \/ FailFetch(k)
    \/ GatherDone
    \/ GatherRaise

\* The event loop keeps running what is ready, and every request ends (by a
\* body, by an error or by the deadline of FETCH_TIMEOUT): the loop does not
\* stop while a step of it is possible.
Fairness == WF_vars(LoopStep)

\* One invocation, followed to its end (a later invocation runs the same
\* code from an empty stack).
FirstCall == Next /\ calls' = 1

FairSpec == Init /\ [][FirstCall]_vars /\ Fairness

\* C17: every invocation ends, by a result or by an exception, whatever the
\* store (cycles included); the d-th nested call runs with the budget less
\* d, calls are nested only under a positive budget, and so never deeper
\* than the initial budget.
C17_Terminates ==
    /\ (pc = "running") ~> (pc \in {"returned", "raised"})
    /\ [](\A d \in 1..Len(stack) : stack[d].recursive = args.recursive - (d - 1))
    /\ [](\A d \in 1..(Len(stack) - 1) : stack[d].recursive > 0)
    /\ [](Started => Len(stack) - 1 <= (IF args.recursive > 0 THEN args.recursive ELSE 0))

\* Item 1 is its own child: budget 2 fetches it three times, then returns.
C17_Witness ==
    /\ Succeeded /\ args.recursive = 2
    /\ args.urls = <<[tmpl |-> "item", id |-> 1]>>
    /\ Children(args.urls[1]) = <<1>>
    /\ fetched[args.urls[1]] = 3 /\ maxDepth = 2

\* Parent by parent: the batch, then for each present item with children, in
\* batch order, the whole expansion of its children with one budget less.
RECURSIVE PerParent(_, _), SubtreesUpTo(_, _, _)
PerParent(urls, budget) ==
    Batch(urls) \o (IF budget > 0 THEN SubtreesUpTo(urls, Len(urls), budget) ELSE <<>>)
SubtreesUpTo(urls, k, budget) ==
    IF k = 0 THEN <<>>
    ELSE SubtreesUpTo(urls, k - 1, budget)
         \o (IF ChildAddrs(urls[k]) # <<>>
             THEN PerParent(ChildAddrs(urls[k]), budget - 1) ELSE <<>>)

\* C18: one recursive call per present item with children, in batch order,
\* each awaited before the next parent is looked at: the result is the batch
\* followed by the parents' whole subtrees one after the other, every nested
\* call serves exactly one parent, and only the innermost call has tasks
\* that have not returned.
C18_PerParentRecursion ==
    /\ Succeeded => result = PerParent(args.urls, args.recursive)
    /\ \A d \in 2..Len(stack) :
          /\ stack[d - 1].i \in 1..Len(stack[d - 1].items)
          /\ stack[d].parent = stack[d - 1].items[stack[d - 1].i]
          /\ stack[d].urls = ChildAddrs(stack[d].parent.url)
          /\ stack[d].recursive = stack[d - 1].recursive - 1
          /\ Len(stack[d - 1].new_items) =
                Len(SubtreesUpTo(stack[d - 1].urls, stack[d - 1].i - 1, stack[d - 1].recursive))
    /\ \A d \in 1..(Len(stack) - 1) :
          \A k \in 1..Len(stack[d].tasks) : stack[d].tasks[k].st = "done"

\* [1, 2] with 1 -> 1 and 2 -> 2, budget 2: item 1's subtree (1, 1) comes
\* before item 2's child.
C18_Witness ==
    /\ Succeeded /\ args.recursive = 2
    /\ IdsOf(UrlsOf(result)) = <<1, 2, 1, 1, 2, 2>>
    /\ result # LevelOrder(args.urls, args.recursive)

\* C19: a budget <= 0 is a budget of 0: only the inputs are fetched, no
\* child is expanded, the batch comes back in input order; and under an
\* initial budget >= 0 no call ever runs with a negative budget.
C19_NonPositiveBudget ==
    /\ (Started /\ args.recursive <= 0) =>
          /\ reccalls = 0
          /\ Len(stack) <= 1
          /\ maxDepth = 0
          /\ \A u \in AllUrls : fetched[u] <= Count(args.urls, u)
          /\ Succeeded => (result = Batch(args.urls) /\ nfetch = Len(args.urls))
    /\ (Started /\ args.recursive >= 0) =>
          \A d \in 1..Len(stack) : stack[d].recursive >= 0

\* Budget -1, two inputs of which the first has children: two results.
C19_Witness ==
    /\ Succeeded /\ args.recursive = 0 - 1
    /\ Len(args.urls) = 2
    /\ Children(args.urls[1]) # <<>>
    /\ Len(result) = 2

\* C20: the event loop is closed when an invocation returns and at no other
\* time: a failed invocation leaves it open, with its unfinished tasks in
\* it; every invocation made after a successful one raises without issuing
\* a request.
C20_LoopLifecycle ==
    /\ [](pc = "returned" => loopClosed)
    /\ []((pc = "raised" /\ error \in FetchErrors) => ~loopClosed)
    /\ []((loopClosed /\ pc # "returned") =>
            (pc = "raised" /\ error = "RuntimeError" /\ nfetch = 0 /\ result = <<>>))
    /\ [][(~loopClosed /\ loopClosed') => pc' = "returned"]_vars
    /\ [][loopClosed => loopClosed']_vars
    /\ [][(loopClosed /\ calls' = calls + 1) =>
            (pc' = "raised" /\ error' = "RuntimeError" /\ stack' = <<>>)]_vars
    /\ [][(pc = "running" /\ pc' = "raised") =>
            (~loopClosed' /\ pending' = pending + Unfinished(Top.tasks))]_vars

\* The second invocation, made after a successful first one, has raised.
C20_Witness ==
    /\ calls = 2 /\ loopClosed
    /\ pc = "raised" /\ error = "RuntimeError" /\ nfetch = 0
    /\ Len(args.urls) >= 1

====
